---------------------------- MODULE Spec2Model ----------------------------
(***************************************************************************)
(* LinguaLens document translation: the Streamlit program (src/app.py) and *)
(* the FastAPI program (src/main.py).  `variant` says which of the two     *)
(* programs a behaviour is a run of.                                       *)
(*                                                                         *)
(* Text is a sequence of one-character strings, so that len(), split(),    *)
(* strip() and concatenation are computed as Python computes them.         *)
(***************************************************************************)
EXTENDS Integers, Sequences, FiniteSets, TLC

VARIABLES
    variant,      \* "app" (src/app.py) or "main" (src/main.py)
    hub,          \* language pairs for which a Helsinki-NLP model exists
    upload,       \* upload[r]: what request r was given
    pc,           \* pc[r]: where request r is in its handler
    loc,          \* loc[r]: the handler's local variables
    fs,           \* the file system: path -> file
    model_cache,  \* app.py's process-wide cache: the pairs it holds
    obs,          \* obs[r]: what request r has done so far
    fin,          \* a function-level run: the function and its arguments
    fout          \* a function-level run: what the call returned

vars == <<variant, hub, upload, pc, loc, fs, model_cache, obs, fin, fout>>

Variants == {"app", "main"}

---------------------------------------------------------------------------
(* Bounds of the model.                                                    *)

MaxTextLen == 4      \* longest enumerated text given to chunk_text
MaxMaxLength == 4    \* largest enumerated max_length given to chunk_text
MaxRows == 2         \* most rows of an enumerated table
MaxCells == 3        \* most cells of an enumerated table
MaxLoads == 3
MaxFragments == 3        \* most load_model_and_tokenizer calls of one process

---------------------------------------------------------------------------
(* Python string operations.                                               *)

Str(n) == [1..n -> {"a", ".", " "}]

IsSpace(c) == c \in {" ", "\n", "\t"}

RECURSIVE lstrip(_)
lstrip(s) == IF s # <<>> /\ IsSpace(Head(s)) THEN lstrip(Tail(s)) ELSE s

RECURSIVE rstrip(_)
rstrip(s) ==
    IF s # <<>> /\ IsSpace(s[Len(s)]) THEN rstrip(SubSeq(s, 1, Len(s) - 1)) ELSE s

strip(s) == rstrip(lstrip(s))

Delim == <<".", " ">>

DelimAt(text, i) == i + 1 <= Len(text) /\ text[i] = "." /\ text[i + 1] = " "

\* 0 when ". " does not occur at or after `from`, else its first position.
NextDelim(text, from) ==
    LET P == {i \in from..(Len(text) - 1) : DelimAt(text, i)}
    IN  IF P = {} THEN 0 ELSE CHOOSE i \in P : \A j \in P : i <= j

RECURSIVE SplitFrom(_, _)
SplitFrom(text, start) ==
    LET d == NextDelim(text, start)
    IN  IF d = 0 THEN <<SubSeq(text, start, Len(text))>>
        ELSE <<SubSeq(text, start, d - 1)>> \o SplitFrom(text, d + 2)

\* text.split(". "): always at least one fragment.
split(text) == SplitFrom(text, 1)

RECURSIVE join(_, _)
join(sep, parts) ==
    IF parts = <<>> THEN <<>>
    ELSE IF Len(parts) = 1 THEN parts[1]
    ELSE parts[1] \o sep \o join(sep, Tail(parts))

---------------------------------------------------------------------------
(* chunk_text.                                                             *)

DEFAULT_MAX_LENGTH == 512

app_fits(chunk, sentence, max_length) ==
    Len(chunk) + Len(sentence) + 2 < max_length

main_fits(chunk, sentence, max_length) ==
    Len(chunk) + Len(sentence) < max_length

fits(v, chunk, sentence, max_length) ==
    IF v = "app" THEN app_fits(chunk, sentence, max_length)
    ELSE main_fits(chunk, sentence, max_length)

RECURSIVE chunk_loop(_, _, _, _, _, _)
chunk_loop(v, sentences, i, chunks, chunk, max_length) ==
    IF i > Len(sentences)
    THEN IF chunk # <<>> THEN Append(chunks, strip(chunk)) ELSE chunks
    ELSE IF fits(v, chunk, sentences[i], max_length)
    THEN chunk_loop(v, sentences, i + 1, chunks,
                    chunk \o sentences[i] \o Delim, max_length)
    ELSE chunk_loop(v, sentences, i + 1, Append(chunks, strip(chunk)),
                    sentences[i] \o Delim, max_length)

chunk_text(v, text, max_length) ==
    chunk_loop(v, split(text), 1, <<>>, <<>>, max_length)

---------------------------------------------------------------------------
(* Cells of a table: a string, a number, or None (an empty spreadsheet     *)
(* cell).  Every cell record has the same fields so that any two compare.  *)

StrCell(s) == [t |-> "str", s |-> s, n |-> 0]
NumCell(n) == [t |-> "num", s |-> <<>>, n |-> n]
NoneCell == [t |-> "none", s |-> <<>>, n |-> 0]

\* str(cell), as map(str, row) applies it.
str(cell) ==
    CASE cell.t = "str" -> cell.s
      [] cell.t = "num" -> <<ToString(cell.n)>>
      [] OTHER -> <<"N", "o", "n", "e">>

---------------------------------------------------------------------------
(* The translation backend: tokenizer(...), model.generate, decode.  It is *)
(* an opaque function of the text handed to it; a call may raise.          *)

Backend(s) == <<"~">> \o s

\* load_model_and_tokenizer: whether it raised, the cache it leaves, and
\* the number of from_pretrained acquisitions it made.
\* (app_load_caches_first: the cache entry made before from_pretrained has
\* returned, so that a failed load leaves the key behind.)
app_load_caches_first(key, cache, models) ==
    IF key \in cache THEN [raised |-> FALSE, cache |-> cache, acquired |-> 0]
    ELSE [raised |-> key \notin models, cache |-> cache \cup {key}, acquired |-> 1]

app_load_model_and_tokenizer(key, cache, models) ==
    IF key \in cache THEN [raised |-> FALSE, cache |-> cache, acquired |-> 0]
    ELSE IF key \in models
    THEN [raised |-> FALSE, cache |-> cache \cup {key}, acquired |-> 1]
    ELSE [raised |-> TRUE, cache |-> cache, acquired |-> 1]

main_load_model_and_tokenizer(key, cache, models) ==
    IF key \in models
    THEN [raised |-> FALSE, cache |-> cache, acquired |-> 1]
    ELSE [raised |-> TRUE, cache |-> cache, acquired |-> 1]

load_model_and_tokenizer(v, key, cache, models) ==
    IF v = "app" THEN app_load_model_and_tokenizer(key, cache, models)
    ELSE main_load_model_and_tokenizer(key, cache, models)

\* The loop over the units (chunks, or translatable cells) handed to the
\* backend one by one.  fail_at = 0: no call raises; fail_at = k: the k-th
\* call raises, and the exception leaves the loop.
BackendCalls(units, fail_at) ==
    IF fail_at \in 1..Len(units) THEN SubSeq(units, 1, fail_at) ELSE units

BackendRaised(units, fail_at) == fail_at \in 1..Len(units)

\* What a translate_* call gives: raised, or its value; the texts it passed
\* to the backend, in order; the cache and the acquisitions of its load.
Raise(ld, calls) ==
    [raised |-> TRUE, text |-> <<>>, cells |-> <<>>, calls |-> calls,
     cache |-> ld.cache, acquired |-> ld.acquired]

\* (translate_text_no_separator: "".join(translated_chunks).)
translate_text_no_separator(v, text, key, cache, models, fail_at) ==
    LET ld == load_model_and_tokenizer(v, key, cache, models)
        chunks == chunk_text(v, text, DEFAULT_MAX_LENGTH)
        translated_chunks == [i \in 1..Len(chunks) |-> Backend(chunks[i])]
    IN  IF ld.raised THEN Raise(ld, <<>>)
        ELSE IF BackendRaised(chunks, fail_at)
        THEN Raise(ld, BackendCalls(chunks, fail_at))
        ELSE [raised |-> FALSE, text |-> join(<<>>, translated_chunks),
              cells |-> <<>>, calls |-> chunks,
              cache |-> ld.cache, acquired |-> ld.acquired]

translate_text(v, text, key, cache, models, fail_at) ==
    LET ld == load_model_and_tokenizer(v, key, cache, models)
        chunks == chunk_text(v, text, DEFAULT_MAX_LENGTH)
        translated_chunks == [i \in 1..Len(chunks) |-> Backend(chunks[i])]
    IN  IF ld.raised THEN Raise(ld, <<>>)
        ELSE IF BackendRaised(chunks, fail_at)
        THEN Raise(ld, BackendCalls(chunks, fail_at))
        ELSE [raised |-> FALSE, text |-> join(<<" ">>, translated_chunks),
              cells |-> <<>>, calls |-> chunks,
              cache |-> ld.cache, acquired |-> ld.acquired]

\* The test without cell.strip(): every string cell is translated.
is_translatable_any_str(cell) == cell.t = "str"

\* isinstance(cell, str) and cell.strip()
is_translatable(cell) == cell.t = "str" /\ strip(cell.s) # <<>>

translate_cell(cell) ==
    IF is_translatable(cell) THEN StrCell(Backend(cell.s)) ELSE cell

RECURSIVE row_units(_)
row_units(row) ==
    IF row = <<>> THEN <<>>
    ELSE (IF is_translatable(Head(row)) THEN <<Head(row).s>> ELSE <<>>)
         \o row_units(Tail(row))

\* The texts translate_excel_cells hands to the backend, in row-major order.
RECURSIVE cell_units(_)
cell_units(cells) ==
    IF cells = <<>> THEN <<>>
    ELSE row_units(Head(cells)) \o cell_units(Tail(cells))

translate_excel_cells(v, cells, key, cache, models, fail_at) ==
    LET ld == load_model_and_tokenizer(v, key, cache, models)
        units == cell_units(cells)
    IN  IF ld.raised THEN Raise(ld, <<>>)
        ELSE IF BackendRaised(units, fail_at)
        THEN Raise(ld, BackendCalls(units, fail_at))
        ELSE [raised |-> FALSE, text |-> <<>>,
              cells |-> [i \in 1..Len(cells) |->
                            [j \in 1..Len(cells[i]) |-> translate_cell(cells[i][j])]],
              calls |-> units, cache |-> ld.cache, acquired |-> ld.acquired]

---------------------------------------------------------------------------
(* Files and paths.  A path is its directory, the file name without its    *)
(* extension, and the extension, so that os.path.splitext, str.endswith    *)
(* and mimetypes.guess_type read the part they read in Python.             *)

OUTPUT_DIR == "translated_files"

Path(dir, stem, ext) == [dir |-> dir, stem |-> stem, ext |-> ext]

\* main.py's file_path before line 212 has bound it.
Unbound == Path("<unbound>", "", "")

File(kind, text, cells, corrupt, owner) ==
    [kind |-> kind, text |-> text, cells |-> cells, corrupt |-> corrupt,
     owner |-> owner]

Exists(files, path) == path \in DOMAIN files

WriteFile(files, path, file) == (path :> file) @@ files

RemoveFile(files, path) == [p \in (DOMAIN files) \ {path} |-> files[p]]

\* mimetypes.guess_type goes by the extension, whatever its case.
guess_type(file_path) ==
    CASE file_path.ext \in {".pdf", ".PDF"} -> "application/pdf"
      [] file_path.ext \in {".txt", ".TXT"} -> "text/plain"
      [] file_path.ext = ".csv" -> "text/csv"
      [] file_path.ext = ".docx" ->
           "application/vnd.openxmlformats-officedocument.wordprocessingml.document"
      [] file_path.ext = ".xlsx" ->
           "application/vnd.openxmlformats-officedocument.spreadsheetml.sheet"
      [] file_path.ext = ".exe" -> "application/x-msdos-program"
      [] OTHER -> "None"

\* "pdf" in mime_type
has_pdf(mime_type) == mime_type = "application/pdf"

\* (detect_file_type_any_case: the extension compared whatever its case,
\* as file_path.lower().endswith(ext) would.)
detect_file_type_any_case(file_path) ==
    LET mime_type == guess_type(file_path)
    IN  IF mime_type # "None" /\ has_pdf(mime_type) THEN ".pdf"
        ELSE IF file_path.ext \in {".docx", ".xlsx", ".csv", ".txt"}
        THEN file_path.ext
        ELSE IF file_path.ext = ".TXT" THEN ".txt"
        ELSE "raise"

\* "raise" stands for the ValueError.
detect_file_type(file_path) ==
    LET mime_type == guess_type(file_path)
    IN  IF mime_type # "None" /\ has_pdf(mime_type) THEN ".pdf"
        ELSE IF file_path.ext \in {".docx", ".xlsx", ".csv", ".txt"}
        THEN file_path.ext
        ELSE "raise"

\* ", ".join(...) of each row, the rows joined by "\n".
flat_text(cells) ==
    join(<<"\n">>,
         [i \in 1..Len(cells) |->
            join(<<",", " ">>, [j \in 1..Len(cells[i]) |-> str(cells[i][j])])])

NoText == [raised |-> TRUE, text |-> <<>>]

\* extract_text: open() raises on a file that is gone, the parsers on one
\* they cannot read.
extract_text(files, file_path) ==
    LET extension == detect_file_type(file_path)
    IN  IF extension = "raise" \/ ~Exists(files, file_path) THEN NoText
        ELSE IF files[file_path].corrupt THEN NoText
        ELSE IF extension \in {".pdf", ".docx", ".txt"}
        THEN [raised |-> FALSE, text |-> files[file_path].text]
        ELSE IF extension = ".csv"
        THEN [raised |-> FALSE, text |-> flat_text(files[file_path].cells)]
        ELSE NoText

NoCells == [raised |-> TRUE, cells |-> <<>>]

\* extract_excel_cells, and list(csv.reader(f)) of the .csv branch.
extract_excel_cells(files, file_path) ==
    IF ~Exists(files, file_path) THEN NoCells
    ELSE IF files[file_path].corrupt THEN NoCells
    ELSE [raised |-> FALSE, cells |-> files[file_path].cells]

\* save_translated_file: the serializer by output_format; FALSE: ValueError.
save_translated_file_ok(output_format) ==
    output_format \in {"txt", "docx", "pdf", "csv"}

save_translated_file(files, output_path, translated_text, output_format, r) ==
    WriteFile(files, output_path,
              File(output_format, translated_text, <<>>, FALSE, r))

save_translated_excel(files, output_path, translated_cells, r) ==
    WriteFile(files, output_path, File("xlsx", <<>>, translated_cells, FALSE, r))

\* csv.writer(f).writerow(row) for each row (the .csv branch, output "csv").
write_csv_rows(files, output_path, translated_cells, r) ==
    WriteFile(files, output_path, File("csv", <<>>, translated_cells, FALSE, r))

\* f"{os.path.splitext(name)[0]}_translated.{output_format}" in OUTPUT_DIR
OutputPath(stem, output_format) ==
    Path(OUTPUT_DIR, stem \o "_translated", "." \o output_format)

FileName(path) == path.stem \o path.ext

\* app.py names the output once, by output_format (line 259).
app_output_path(stem, extension, output_format) ==
    OutputPath(stem, output_format)

\* main.py names it in each branch; the .xlsx branch by "xlsx" (line 223).
main_output_path(stem, extension, output_format) ==
    IF extension = ".xlsx" THEN OutputPath(stem, "xlsx")
    ELSE OutputPath(stem, output_format)

---------------------------------------------------------------------------
(* Requests and what they upload.                                          *)

Reqs == {"r1", "r2"}

OutputFormats == {"txt", "docx", "pdf", "csv", "xlsx"}

LangPairs == {<<"en", "fr">>, <<"fr", "en">>, <<"en", "en">>}

\* The pairs a model exists for; whether one exists for a pair of equal
\* languages is the hub's business, so both outcomes are in.
HubChoices == {{<<"en", "fr">>}, {<<"en", "fr">>, <<"en", "en">>}}

Hi == <<"H", "i">>

DocTexts == {<<>>, <<" ">>, Hi, <<"a", ".", " ", "b">>}

XlsxTable == <<<<StrCell(Hi), NumCell(7)>>, <<NoneCell>>>>

CsvTable == <<<<StrCell(<<"a">>), StrCell(<<>>)>>, <<StrCell(<<"b">>)>>>>

Bodies ==
    {[ext |-> ".txt", text |-> t, cells |-> <<>>] : t \in DocTexts}
    \cup {[ext |-> e, text |-> Hi, cells |-> <<>>] :
            e \in {".pdf", ".PDF", ".docx", ".exe", ".TXT"}}
    \cup {[ext |-> ".xlsx", text |-> <<>>, cells |-> XlsxTable],
          [ext |-> ".csv", text |-> <<>>, cells |-> CsvTable]}

Upload(stem, b, corrupt, pair, output_format) ==
    [stem |-> stem, ext |-> b.ext, text |-> b.text, cells |-> b.cells,
     corrupt |-> corrupt, src_lang |-> pair[1], tgt_lang |-> pair[2],
     output_format |-> output_format]

\* No file chosen (app.py), or an upload with no filename (main.py).
NoBody == [ext |-> "", text |-> <<>>, cells |-> <<>>]

Uploads ==
    {Upload("a", b, c, lp, f) :
        b \in Bodies, c \in BOOLEAN, lp \in LangPairs, f \in OutputFormats}
    \cup {Upload("", NoBody, FALSE, lp, f) : lp \in LangPairs, f \in OutputFormats}

NoUpload == Upload("", NoBody, FALSE, <<"", "">>, "")

no_file(u) == u.stem = "" /\ u.ext = ""

\* st.file_uploader(type=[...]) offers only these files.
uploader_accepts(u) ==
    no_file(u)
    \/ u.ext \in {".pdf", ".PDF", ".docx", ".xlsx", ".csv", ".txt", ".TXT"}

NoLoc ==
    [file_path |-> Unbound, extension |-> "", output_path |-> Unbound,
     text |-> <<>>, cells |-> <<>>, translated_text |-> <<>>,
     translated_cells |-> <<>>, error |-> FALSE]

NoObs ==
    [acquired |-> 0, calls |-> <<>>, failed_at |-> 0, load_failed |-> FALSE,
     translate_called |-> FALSE, translated |-> FALSE, cache_before |-> {},
     temp |-> Unbound, outputs |-> {}, status |-> "none",
     cleanup_raised |-> FALSE, reported |-> "", handed |-> "none"]

NoFin == [fn |-> "none"]

NoFout == [done |-> FALSE]

---------------------------------------------------------------------------
(* The request handler: main() -> process_file in app.py, upload_file in   *)
(* main.py.  One action per call the handler makes.                        *)

Set(f, r, v) == [f EXCEPT ![r] = v]

\* The Translate button (app.py 317-326) and the head of process_file
\* (248-255); upload_file's head (main.py 209-214).
Submit(r) ==
    /\ pc[r] = "ready"
    /\ LET u == upload[r]
           app_path == Path("/tmp", "tmp_" \o r, u.ext)
           main_path == Path(".", "temp_" \o u.stem, u.ext)
           file_path == IF variant = "app" THEN app_path ELSE main_path
       IN  IF variant = "app" /\ (no_file(u) \/ u.src_lang = u.tgt_lang)
           THEN /\ pc' = Set(pc, r, "done")
                /\ obs' = Set(obs, r, [obs[r] EXCEPT !.status = "failure"])
                /\ UNCHANGED <<loc, fs>>
           ELSE IF variant = "main" /\ no_file(u)
           THEN /\ pc' = Set(pc, r, "cleanup")
                /\ loc' = Set(loc, r, [loc[r] EXCEPT !.error = TRUE])
                /\ UNCHANGED <<obs, fs>>
           ELSE /\ pc' = Set(pc, r, "saved")
                /\ loc' = Set(loc, r, [loc[r] EXCEPT !.file_path = file_path])
                /\ obs' = Set(obs, r, [obs[r] EXCEPT !.temp = file_path])
                /\ fs' = WriteFile(fs, file_path,
                                   File("upload", u.text, u.cells, u.corrupt, r))
    /\ UNCHANGED <<variant, hub, upload, model_cache, fin, fout>>

\* detect_file_type(file_path); app.py also names the output here.
Detect(r) ==
    /\ pc[r] = "saved"
    /\ LET extension == detect_file_type(loc[r].file_path)
           output_path ==
               IF variant = "app"
               THEN app_output_path(upload[r].stem, extension,
                                    upload[r].output_format)
               ELSE loc[r].output_path
       IN  IF extension = "raise"
           THEN /\ pc' = Set(pc, r, "cleanup")
                /\ loc' = Set(loc, r, [loc[r] EXCEPT !.error = TRUE])
           ELSE /\ pc' = Set(pc, r, "detected")
                /\ loc' = Set(loc, r, [loc[r] EXCEPT !.extension = extension,
                                                     !.output_path = output_path])
    /\ UNCHANGED <<variant, hub, upload, fs, model_cache, obs, fin, fout>>

\* extract_excel_cells, list(csv.reader(f)) or extract_text, by extension.
Extract(r) ==
    /\ pc[r] = "detected"
    /\ LET l == loc[r]
           table == l.extension \in {".xlsx", ".csv"}
           c == extract_excel_cells(fs, l.file_path)
           t == extract_text(fs, l.file_path)
       IN  IF (table /\ c.raised) \/ (~table /\ t.raised)
           THEN /\ pc' = Set(pc, r, "cleanup")
                /\ loc' = Set(loc, r, [l EXCEPT !.error = TRUE])
           ELSE /\ pc' = Set(pc, r, "extracted")
                /\ loc' = Set(loc, r,
                              IF table THEN [l EXCEPT !.cells = c.cells]
                              ELSE [l EXCEPT !.text = t.text])
    /\ UNCHANGED <<variant, hub, upload, fs, model_cache, obs, fin, fout>>

\* The units the translate_* call of request r would hand to the backend.
Units(r) ==
    IF loc[r].extension \in {".xlsx", ".csv"} THEN cell_units(loc[r].cells)
    ELSE chunk_text(variant, loc[r].text, DEFAULT_MAX_LENGTH)

\* translate_excel_cells or translate_text; any backend call may raise.
Translate(r) ==
    /\ pc[r] = "extracted"
    /\ \E fail_at \in 0..Len(Units(r)) :
         LET l == loc[r]
             key == <<upload[r].src_lang, upload[r].tgt_lang>>
             ld == load_model_and_tokenizer(variant, key, model_cache, hub)
             res == IF l.extension \in {".xlsx", ".csv"}
                    THEN translate_excel_cells(variant, l.cells, key,
                                               model_cache, hub, fail_at)
                    ELSE translate_text(variant, l.text, key,
                                        model_cache, hub, fail_at)
             seen == [obs[r] EXCEPT
                        !.acquired = @ + res.acquired,
                        !.calls = @ \o res.calls,
                        !.failed_at = IF res.raised /\ ~ld.raised
                                      THEN fail_at ELSE 0,
                        !.load_failed = ld.raised,
                        !.translate_called = TRUE,
                        !.translated = ~res.raised,
                        !.cache_before = model_cache]
         IN  /\ model_cache' = res.cache
             /\ obs' = Set(obs, r, seen)
             /\ IF res.raised
                THEN /\ pc' = Set(pc, r, "cleanup")
                     /\ loc' = Set(loc, r, [l EXCEPT !.error = TRUE])
                ELSE /\ pc' = Set(pc, r, "translated")
                     /\ loc' = Set(loc, r,
                                   [l EXCEPT !.translated_text = res.text,
                                             !.translated_cells = res.cells])
    /\ UNCHANGED <<variant, hub, upload, fs, fin, fout>>

\* The branch that writes the output (app.py 262-283, main.py 220-253):
\* whether it raised, and the files it leaves.
save_output(files, l, output_format, output_path, r) ==
    LET wrote(fls) == [raised |-> FALSE, files |-> fls]
        raise == [raised |-> TRUE, files |-> files]
    IN  IF l.extension = ".xlsx"
        THEN wrote(save_translated_excel(files, output_path, l.translated_cells, r))
        ELSE IF l.extension = ".csv"
        THEN IF output_format = "xlsx"
             THEN wrote(save_translated_excel(files, output_path,
                                              l.translated_cells, r))
             ELSE IF output_format = "csv"
             THEN wrote(write_csv_rows(files, output_path, l.translated_cells, r))
             ELSE IF save_translated_file_ok(output_format)
             THEN wrote(save_translated_file(files, output_path,
                                             flat_text(l.translated_cells),
                                             output_format, r))
             ELSE raise
        ELSE IF save_translated_file_ok(output_format)
        THEN wrote(save_translated_file(files, output_path, l.translated_text,
                                        output_format, r))
        ELSE raise

Save(r) ==
    /\ pc[r] = "translated"
    /\ LET l == loc[r]
           u == upload[r]
           output_path ==
               IF variant = "app" THEN l.output_path
               ELSE main_output_path(u.stem, l.extension, u.output_format)
           res == save_output(fs, l, u.output_format, output_path, r)
       IN  /\ pc' = Set(pc, r, "cleanup")
           /\ fs' = res.files
           /\ loc' = Set(loc, r, [l EXCEPT !.output_path = output_path,
                                           !.error = res.raised])
           /\ obs' = Set(obs, r,
                         IF res.raised THEN obs[r]
                         ELSE [obs[r] EXCEPT !.outputs = @ \cup {output_path}])
    /\ UNCHANGED <<variant, hub, upload, model_cache, fin, fout>>

\* The finally block (app.py 287-290, main.py 268-270), then the return or
\* the exception.  With file_path unbound, os.path.exists(file_path) raises
\* UnboundLocalError.
Cleanup(r) ==
    /\ pc[r] = "cleanup"
    /\ LET l == loc[r]
       IN  IF l.file_path = Unbound
           THEN /\ obs' = Set(obs, r, [obs[r] EXCEPT !.status = "failure",
                                                     !.cleanup_raised = TRUE])
                /\ UNCHANGED fs
           ELSE /\ fs' = IF Exists(fs, l.file_path)
                         THEN RemoveFile(fs, l.file_path) ELSE fs
                /\ obs' = Set(obs, r,
                              IF l.error
                              THEN [obs[r] EXCEPT !.status = "failure"]
                              ELSE [obs[r] EXCEPT
                                      !.status = "success",
                                      !.reported = FileName(l.output_path)])
    /\ pc' = Set(pc, r, "done")
    /\ UNCHANGED <<variant, hub, upload, loc, model_cache, fin, fout>>

---------------------------------------------------------------------------
(* One request, from the Translate button or the POST to its last line.    *)

NoFiles == <<>>

Init ==
    /\ variant \in Variants
    /\ hub \in HubChoices
    /\ model_cache \in (IF variant = "app" THEN SUBSET hub ELSE {{}})
    /\ \E u \in Uploads :
         /\ variant = "app" => uploader_accepts(u)
         /\ upload = [r \in Reqs |-> IF r = "r1" THEN u ELSE NoUpload]
    /\ pc = [r \in Reqs |-> IF r = "r1" THEN "ready" ELSE "absent"]
    /\ loc = [r \in Reqs |-> NoLoc]
    /\ obs = [r \in Reqs |-> NoObs]
    /\ fs = NoFiles
    /\ fin = NoFin
    /\ fout = NoFout

Next ==
    \E r \in Reqs :
        \/ Submit(r)
        \/ Detect(r)
        \/ Extract(r)
        \/ Translate(r)
        \/ Save(r)
        \/ Cleanup(r)

Spec == Init /\ [][Next]_vars

---------------------------------------------------------------------------
(* Function-level runs: one call of chunk_text, or of                      *)
(* translate_excel_cells, on each input of a bounded set.                  *)

NoRequests ==
    /\ hub = {<<"en", "fr">>}
    /\ model_cache = {}
    /\ upload = [r \in Reqs |-> NoUpload]
    /\ pc = [r \in Reqs |-> "absent"]
    /\ loc = [r \in Reqs |-> NoLoc]
    /\ obs = [r \in Reqs |-> NoObs]
    /\ fs = NoFiles

HelloText ==
    <<"H", "e", "l", "l", "o", " ", "w", "o", "r", "l", "d", ".", " ",
      "T", "h", "i", "s", " ", "i", "s", " ", "a", " ", "t", "e", "s", "t", ".">>

\* "Hello world. abcdef"
HelloAbcdef == SubSeq(HelloText, 1, 13) \o <<"a", "b", "c", "d", "e", "f">>

ChunkInputs ==
    {[fn |-> "chunk_text", text |-> t, max_length |-> m] :
        t \in UNION {Str(n) : n \in 0..MaxTextLen}, m \in 1..MaxMaxLength}
    \cup {[fn |-> "chunk_text", text |-> t, max_length |-> 20] :
            t \in {HelloText, HelloAbcdef, [i \in 1..19 |-> "a"]}}

InitChunk ==
    /\ variant \in Variants
    /\ fin \in ChunkInputs
    /\ fout = NoFout
    /\ NoRequests

CallChunkText ==
    /\ fin.fn = "chunk_text"
    /\ ~fout.done
    /\ fout' = [done |-> TRUE,
                chunks |-> chunk_text(variant, fin.text, fin.max_length)]
    /\ UNCHANGED <<variant, hub, upload, pc, loc, fs, model_cache, obs, fin>>

SpecChunk == InitChunk /\ [][CallChunkText]_vars

CellValues ==
    {NoneCell, NumCell(7), StrCell(<<>>), StrCell(<<" ">>), StrCell(<<"a">>)}

RECURSIVE Sum(_)
Sum(s) == IF s = <<>> THEN 0 ELSE Head(s) + Sum(Tail(s))

\* The row lengths of the enumerated tables: rows of different lengths,
\* empty rows and the empty table are among them.
Shapes ==
    {s \in UNION {[1..n -> 0..MaxCells] : n \in 0..MaxRows} : Sum(s) <= MaxCells}

\* The table of shape s whose cells, row after row, are those of flat.
Table(s, flat) ==
    [i \in 1..Len(s) |->
        SubSeq(flat, Sum(SubSeq(s, 1, i - 1)) + 1, Sum(SubSeq(s, 1, i)))]

Tables ==
    UNION {{Table(s, flat) : flat \in [1..Sum(s) -> CellValues]} : s \in Shapes}

InitCells ==
    /\ variant \in Variants
    /\ fin \in {[fn |-> "translate_excel_cells", cells |-> t] : t \in Tables}
    /\ fout = NoFout
    /\ NoRequests

CallTranslateExcelCells ==
    /\ fin.fn = "translate_excel_cells"
    /\ ~fout.done
    /\ \E fail_at \in 0..Len(cell_units(fin.cells)) :
         LET res == translate_excel_cells(variant, fin.cells, <<"en", "fr">>,
                                          model_cache, hub, fail_at)
         IN  /\ fout' = [done |-> TRUE, res |-> res]
             /\ model_cache' = res.cache
    /\ UNCHANGED <<variant, hub, upload, pc, loc, fs, obs, fin>>

SpecCells == InitCells /\ [][CallTranslateExcelCells]_vars

---------------------------------------------------------------------------
(* The claims.                                                             *)

Ended(r) == pc[r] = "done"

\* Request r went through translate_text (not translate_excel_cells).
TextRoute(r) == loc[r].extension \in {".txt", ".pdf", ".docx"}

Key(r) == <<upload[r].src_lang, upload[r].tgt_lang>>

\* The (row, column) positions of a table.
Positions(cells) ==
    UNION {{<<i, j>> : j \in 1..Len(cells[i])} : i \in 1..Len(cells)}

\* A cell that is not a string, or is the empty string.
NotText(cell) == cell.t # "str" \/ cell.s = <<>>

\* C1: translate_excel_cells never hands a cell that is not a string, or is
\* the empty string, to the backend (every text it passes is the non-empty
\* text of a string cell, and it passes no more texts than there are such
\* cells); the table it returns has as many rows as its input, each row as
\* long as the input row, and every such cell unchanged at its position.
C1_CellsPassThrough ==
    (fin.fn = "translate_excel_cells" /\ fout.done) =>
        LET cells == fin.cells
            res == fout.res
            texts == {p \in Positions(cells) : ~NotText(cells[p[1]][p[2]])}
        IN  /\ \A k \in 1..Len(res.calls) :
                 /\ res.calls[k] # <<>>
                 /\ \E p \in texts : cells[p[1]][p[2]].s = res.calls[k]
            /\ Len(res.calls) <= Cardinality(texts)
            /\ ~res.raised =>
                 /\ Len(res.cells) = Len(cells)
                 /\ \A i \in 1..Len(cells) : Len(res.cells[i]) = Len(cells[i])
                 /\ \A p \in Positions(cells) :
                      NotText(cells[p[1]][p[2]]) =>
                          res.cells[p[1]][p[2]] = cells[p[1]][p[2]]

\* A returned table with rows of different lengths that holds a None cell,
\* an empty string and a cell that was translated.
C1_Witness ==
    /\ fin.fn = "translate_excel_cells"
    /\ fout.done
    /\ ~fout.res.raised
    /\ fin.cells = <<<<StrCell(<<"a">>), NoneCell>>, <<StrCell(<<>>)>>>>
    /\ fout.res.calls = <<<<"a">>>>
    /\ fout.res.cells = <<<<StrCell(Backend(<<"a">>)), NoneCell>>, <<StrCell(<<>>)>>>>

\* C2: when the backend fails on a chunk of translate_text, that chunk gets
\* exactly 3 (maxRetries) backend attempts, and the request then ends in
\* success with an output file written.
C2_FallbackAfterRetries ==
    \A r \in Reqs :
        (Ended(r) /\ TextRoute(r) /\ obs[r].failed_at # 0) =>
            /\ Len(obs[r].calls) - (obs[r].failed_at - 1) = 3
            /\ obs[r].status = "success"
            /\ obs[r].outputs # {}

\* C3: a request whose source language equals its target language acquires
\* no model and makes no backend call, and ends in failure.
C3_SameLanguageFailsFirst ==
    \A r \in Reqs :
        (pc[r] # "absent" /\ upload[r].src_lang = upload[r].tgt_lang) =>
            /\ obs[r].acquired = 0
            /\ obs[r].calls = <<>>
            /\ Ended(r) => obs[r].status = "failure"

\* C4: every chunk chunk_text returns is shorter than max_length, unless it
\* is made of one single fragment that is itself longer than max_length.
C4_ChunkLengthBound ==
    (fin.fn = "chunk_text" /\ fout.done) =>
        LET sentences == split(fin.text)
        IN  \A i \in 1..Len(fout.chunks) :
                \/ Len(fout.chunks[i]) < fin.max_length
                \/ \E j \in 1..Len(sentences) :
                     /\ Len(sentences[j]) > fin.max_length
                     /\ fout.chunks[i] = strip(sentences[j] \o Delim)

\* C5: chunk_text("Hello world. This is a test.", 20) returns exactly
\* ["Hello world.", "This is a test."].
C5_HelloWorldScenario ==
    (fin.fn = "chunk_text" /\ fout.done
        /\ fin.text = HelloText /\ fin.max_length = 20) =>
        fout.chunks = <<SubSeq(HelloText, 1, 12), SubSeq(HelloText, 14, 28)>>

\* C6: translate_text on an empty or whitespace-only text makes no backend
\* call and returns the text unchanged, and chunk_text("") returns no chunk.
C6_EmptyTextUntouched ==
    \A r \in Reqs :
        (TextRoute(r) /\ obs[r].translate_called /\ ~obs[r].load_failed
            /\ strip(loc[r].text) = <<>>) =>
            /\ obs[r].calls = <<>>
            /\ obs[r].translated => loc[r].translated_text = loc[r].text
            /\ chunk_text(variant, <<>>, DEFAULT_MAX_LENGTH) = <<>>

InputExtensions == {".txt", ".pdf", ".docx", ".xlsx", ".csv"}

\* C7: for every input format and every requested output format, a request
\* whose extraction and translation succeeded ends in success with an
\* output file serialized in the requested format.
C7_AnyFormatCombination ==
    \A r \in Reqs :
        (Ended(r) /\ obs[r].translated
            /\ upload[r].ext \in InputExtensions
            /\ upload[r].output_format \in OutputFormats) =>
            /\ obs[r].status = "success"
            /\ \E p \in obs[r].outputs :
                 Exists(fs, p) /\ fs[p].kind = upload[r].output_format

\* C8: the filename a successful request reports is the uploaded name
\* without its extension, then "_translated.", then the output format.
C8_OutputFilename ==
    \A r \in Reqs :
        (Ended(r) /\ obs[r].status = "success") =>
            obs[r].reported =
                upload[r].stem \o "_translated." \o upload[r].output_format

\* C9: once a request has ended, on whatever path, the temp input file and
\* the output file it created are gone, and its cleanup did not raise.
C9_FilesGoneOnEveryExit ==
    \A r \in Reqs :
        Ended(r) =>
            /\ ~Exists(fs, obs[r].temp)
            /\ \A p \in obs[r].outputs : ~Exists(fs, p)
            /\ ~obs[r].cleanup_raised

\* C10: a request for a language pair no model exists for acquires at most
\* once, hands nothing to the backend, writes no output file and does not
\* succeed; once its translate_* call was made the load was attempted
\* exactly once and failed, model_cache is as it was before the call, and
\* the request is on its way out and ends in failure.
C10_NoModelFailsAtOnce ==
    \A r \in Reqs :
        (pc[r] # "absent" /\ Key(r) \notin hub) =>
            /\ obs[r].acquired <= 1
            /\ obs[r].calls = <<>>
            /\ obs[r].outputs = {}
            /\ obs[r].status # "success"
            /\ obs[r].translate_called =>
                 /\ obs[r].acquired = 1
                 /\ obs[r].load_failed
                 /\ model_cache = obs[r].cache_before
                 /\ pc[r] \in {"cleanup", "done"}
                 /\ Ended(r) => obs[r].status = "failure"

\* A request for fr -> en, which has no model, that reached its load with
\* text to translate and has ended.
C10_Witness ==
    \E r \in Reqs :
        /\ Ended(r)
        /\ Key(r) = <<"fr", "en">>
        /\ Key(r) \notin hub
        /\ obs[r].translate_called
        /\ loc[r].text = Hi
        /\ obs[r].status = "failure"

---------------------------------------------------------------------------
(* A process making load_model_and_tokenizer calls one after the other:    *)
(* fout is the history of the calls, model_cache the cache they share.     *)

InitLoads ==
    /\ variant \in Variants
    /\ hub \in HubChoices
    /\ model_cache = {}
    /\ fin = [fn |-> "load_model_and_tokenizer"]
    /\ fout = <<>>
    /\ upload = [r \in Reqs |-> NoUpload]
    /\ pc = [r \in Reqs |-> "absent"]
    /\ loc = [r \in Reqs |-> NoLoc]
    /\ obs = [r \in Reqs |-> NoObs]
    /\ fs = NoFiles

CallLoad ==
    /\ fin.fn = "load_model_and_tokenizer"
    /\ Len(fout) < MaxLoads
    /\ \E key \in LangPairs :
         LET ld == load_model_and_tokenizer(variant, key, model_cache, hub)
         IN  /\ model_cache' = ld.cache
             /\ fout' = Append(fout, [key |-> key, raised |-> ld.raised,
                                      acquired |-> ld.acquired,
                                      before |-> model_cache,
                                      after |-> ld.cache])
    /\ UNCHANGED <<variant, hub, upload, pc, loc, fs, obs, fin>>

SpecLoads == InitLoads /\ [][CallLoad]_vars

\* C11: over the load_model_and_tokenizer calls of one process, no call
\* takes a key out of the cache, and once a call for a pair has succeeded
\* every later call for that pair succeeds from the cache, acquiring nothing.
C11_CacheAppendOnly ==
    (fin.fn = "load_model_and_tokenizer") =>
        /\ \A i \in 1..Len(fout) : fout[i].before \subseteq fout[i].after
        /\ \A i \in 1..Len(fout) : \A j \in (i + 1)..Len(fout) :
             (fout[i].key = fout[j].key /\ ~fout[i].raised) =>
                 /\ ~fout[j].raised
                 /\ fout[j].acquired = 0
                 /\ fout[j].key \in fout[j].before

\* C12: detect_file_type gives ".pdf" whenever the guessed MIME type
\* contains "pdf", otherwise the extension the path ends with among .docx,
\* .xlsx, .csv and .txt, and otherwise raises; a request whose file is
\* rejected extracts nothing, loads no model, makes no backend call, writes
\* no output file and ends in failure.
C12_DetectOrReject ==
    \A r \in Reqs :
        (pc[r] \notin {"absent", "ready", "saved"} /\ loc[r].file_path # Unbound) =>
            LET file_path == loc[r].file_path
                mime_type == guess_type(file_path)
            IN  IF mime_type # "None" /\ has_pdf(mime_type)
                THEN loc[r].extension = ".pdf"
                ELSE IF \E ext \in {".docx", ".xlsx", ".csv", ".txt"} :
                            file_path.ext = ext
                THEN loc[r].extension = file_path.ext
                ELSE /\ loc[r].extension = ""
                     /\ loc[r].error
                     /\ pc[r] \in {"cleanup", "done"}
                     /\ loc[r].text = <<>> /\ loc[r].cells = <<>>
                     /\ ~obs[r].translate_called
                     /\ obs[r].acquired = 0
                     /\ obs[r].calls = <<>>
                     /\ obs[r].outputs = {}
                     /\ Ended(r) => obs[r].status = "failure"

\* A request whose a.TXT (text/plain, but not ending in ".txt") was
\* rejected and has ended.
C12_Witness ==
    \E r \in Reqs :
        /\ Ended(r)
        /\ upload[r].ext = ".TXT"
        /\ upload[r].text = Hi
        /\ loc[r].error
        /\ loc[r].extension = ""
        /\ obs[r].status = "failure"

---------------------------------------------------------------------------
(* translate_text on texts long enough to make several chunks at the       *)
(* default max_length of chunk_text.                                       *)

\* Sentence lengths on both sides of the two programs' fit tests at 512.
FragLens == {0, 1, 254, 255, 300, 520}

Letters == <<"a", "b", "c", "d", "e", "f">>

\* The text whose i-th sentence is lens[i] times the i-th letter, the
\* sentences separated by ". ".
LongText(lens) ==
    join(Delim, [i \in 1..Len(lens) |-> [k \in 1..lens[i] |-> Letters[i]]])

TranslateInputs ==
    {[fn |-> "translate_text", text |-> LongText(lens)] :
        lens \in UNION {[1..n -> FragLens] : n \in 1..MaxFragments}}

InitTranslate ==
    /\ variant \in Variants
    /\ fin \in TranslateInputs
    /\ fout = NoFout
    /\ NoRequests

CallTranslateText ==
    /\ fin.fn = "translate_text"
    /\ ~fout.done
    /\ \E fail_at \in 0..Len(chunk_text(variant, fin.text, DEFAULT_MAX_LENGTH)) :
         LET res == translate_text(variant, fin.text, <<"en", "fr">>,
                                   model_cache, hub, fail_at)
         IN  /\ fout' = [done |-> TRUE, res |-> res]
             /\ model_cache' = res.cache
    /\ UNCHANGED <<variant, hub, upload, pc, loc, fs, obs, fin>>

SpecTranslate == InitTranslate /\ [][CallTranslateText]_vars

\* C13: translate_text hands the chunks of chunk_text to the backend one
\* call per chunk, from the first chunk to the last (a raising call ends
\* the sequence there); the text it returns is made of the translations of
\* the chunks in chunk order, the i-th piece being the translation of the
\* i-th chunk, with exactly one space between two consecutive pieces and
\* nothing else.
C13_ChunksInOrderJoinedBySpace ==
    (fin.fn = "translate_text" /\ fout.done) =>
        LET chunks == chunk_text(variant, fin.text, DEFAULT_MAX_LENGTH)
            res == fout.res
            n == Len(chunks)
            piece(i) == Backend(chunks[i])
            \* the position just before the i-th piece
            before(i) == Sum([j \in 1..(i - 1) |-> Len(piece(j)) + 1])
        IN  IF res.raised
            THEN /\ Len(res.calls) <= n
                 /\ \A i \in 1..Len(res.calls) : res.calls[i] = chunks[i]
            ELSE /\ Len(res.calls) = n
                 /\ \A i \in 1..n : res.calls[i] = chunks[i]
                 /\ Len(res.text) = before(n + 1) - 1
                 /\ \A i \in 1..n :
                      SubSeq(res.text, before(i) + 1, before(i) + Len(piece(i)))
                          = piece(i)
                 /\ \A i \in 2..n : res.text[before(i)] = " "

\* A text of three different chunks was translated.
C13_Witness ==
    /\ fin.fn = "translate_text"
    /\ fout.done
    /\ ~fout.res.raised
    /\ Len(fout.res.calls) = 3
    /\ fout.res.calls[1] # fout.res.calls[2]
    /\ fout.res.calls[2] # fout.res.calls[3]

---------------------------------------------------------------------------
(* Two requests at once.  A Streamlit session runs app.py's script in a    *)
(* thread of its own, so the steps of two process_file calls interleave.   *)
(* main.py's handlers are coroutines without an await: one runs to its end *)
(* before another starts, but a download is a request of its own and comes *)
(* whenever the client sends it.                                           *)

ConcBodies ==
    {[ext |-> ".txt", text |-> t, cells |-> <<>>] : t \in {Hi, <<"a", ".", " ", "b">>}}

ConcUploads ==
    {Upload(stem, b, FALSE, <<"en", "fr">>, f) :
        stem \in {"a", "b"}, b \in ConcBodies, f \in {"txt", "pdf"}}

InitConc ==
    /\ variant \in Variants
    /\ hub = {<<"en", "fr">>}
    /\ model_cache = {}
    /\ upload \in [Reqs -> ConcUploads]
    /\ pc = [r \in Reqs |-> "ready"]
    /\ loc = [r \in Reqs |-> NoLoc]
    /\ obs = [r \in Reqs |-> NoObs]
    /\ fs = NoFiles
    /\ fin = NoFin
    /\ fout = NoFout

InHandler(r) == pc[r] \in {"saved", "detected", "extracted", "translated", "cleanup"}

Scheduled(r) == variant = "main" => \A o \in Reqs \ {r} : ~InHandler(o)

\* The output handed to the caller: open(output_path, "rb") for the
\* download button (app.py 328-335), GET /download/{filename} (main.py
\* 273-285).  "missing": open() raises, or the 404.
Download(r) ==
    /\ pc[r] = "done"
    /\ obs[r].status = "success"
    /\ LET output_path == loc[r].output_path
           got == IF Exists(fs, output_path) THEN fs[output_path].owner
                  ELSE "missing"
       IN  obs' = Set(obs, r, [obs[r] EXCEPT !.handed = got])
    /\ pc' = Set(pc, r, "handed")
    /\ UNCHANGED <<variant, hub, upload, loc, fs, model_cache, fin, fout>>

NextConc ==
    \E r \in Reqs :
        \/ Scheduled(r) /\ Submit(r)
        \/ Scheduled(r) /\ Detect(r)
        \/ Scheduled(r) /\ Extract(r)
        \/ Scheduled(r) /\ Translate(r)
        \/ Scheduled(r) /\ Save(r)
        \/ Scheduled(r) /\ Cleanup(r)
        \/ Download(r)

SpecConc == InitConc /\ [][NextConc]_vars

\* C14: with two requests in progress, in every interleaving, the temp
\* input file of a request exists and is its own from the moment it is
\* written until the request's finally block; an output file a request
\* wrote is never overwritten by the other request; and the output handed
\* to a request's caller is the file that request wrote.
C14_FilesOwnedByTheirRequest ==
    \A r \in Reqs :
        /\ (InHandler(r) /\ obs[r].temp # Unbound) =>
              /\ Exists(fs, obs[r].temp)
              /\ fs[obs[r].temp].owner = r
        /\ \A p \in obs[r].outputs : Exists(fs, p) => fs[p].owner = r
        /\ obs[r].handed \in {"none", r}

===========================================================================
